---------------------------- MODULE Spec2Model ----------------------------
(***************************************************************************)
(* Magic Mouse 2 gesture driver (src/magic_mouse_gestures.py).             *)
(*                                                                         *)
(* Two parts of the driver are modelled:                                   *)
(*   - the gesture detector, detect_gesture, as a stream of calls on one   *)
(*     GestureState (specifications Spec and SpecAny);                     *)
(*   - the report decoder, parse_report with parse_touch, as a function of *)
(*     the byte buffer it is given (specification SpecReport).             *)
(*                                                                         *)
(* Time.  detect_gesture reads time.time(), a float number of seconds.     *)
(* The model counts time in ticks of 0.05 s, so 0.4 s is 8 ticks and 0.5 s *)
(* is 10 ticks, and every timestamp is a whole number of ticks.  The       *)
(* wall clock may be set back between two calls, so the timestamp of a     *)
(* call may be smaller than that of the call before it.                    *)
(*                                                                         *)
(* Optional[T].  None is the empty sequence <<>> and a present value v is  *)
(* the one-element sequence <<v>>; reading the value of None is an error,  *)
(* as it is in Python.                                                     *)
(***************************************************************************)
EXTENDS Integers, Sequences, FiniteSets, TLC

VARIABLES
    state,        \* the GestureState instance of the stream (main, line 231)
    entry,        \* history: the value of state when the last call was entered
    touches,      \* the touches argument of the last detect_gesture call
    now,          \* the value time.time() returned in the last call (ticks)
    result,       \* what the last detect_gesture call returned
    branch,       \* which return statement the last call left through
    prev_branch,  \* history: the return statement of the call before the last
    after_empty,  \* history: the call before the last had an empty touch list
    emits,        \* history: times of the last two calls that returned a gesture
    data,         \* the buffer given to parse_report or to parse_touch
    report,       \* Optional: the list parse_report returned, once it has
    decoded,      \* Optional: the Touch parse_touch returned, once it has
    pc,           \* the statement of main that runs next
    handle,       \* the device handle fd: "unopened", "open" or "closed"
    closes,       \* the number of os.close(fd) calls made
    read_outcome, \* what the last os.read did: "data", "empty" or "error"
    cycle,        \* history: the calls main made since the last os.read
    stop          \* what ended the poll loop: "interrupt" or "error"

vars ==
    <<state, entry, touches, now, result, branch, prev_branch, after_empty,
      emits, data, report, decoded, pc, handle, closes, read_outcome, cycle,
      stop>>

detector_vars ==
    <<state, entry, touches, now, result, branch, prev_branch, after_empty,
      emits>>

report_vars == <<data, report, decoded>>

host_vars == <<pc, handle, closes, read_outcome, cycle, stop>>

----------------------------------------------------------------------------
(* Bounds of the model. *)

\* the largest timestamp of a call, in ticks
MaxTime == 20

\* the most ticks the clock advances between two calls
MaxStep == 3

\* the most ticks the clock is set back between two calls
MaxBack == 1

\* the largest timestamp in a GestureState a stream of SpecAny starts from
MaxInitTime == 1

\* the most complete 8-byte touch blocks in a report buffer
MaxSlots == 2

----------------------------------------------------------------------------
(* Program constants. *)

\* SWIPE_THRESHOLD = 200 (surface units)
SWIPE_THRESHOLD == 200

\* SWIPE_TIME_MAX = 0.4 seconds = 8 ticks
SWIPE_TIME_MAX == 8

\* the literal 0.5 of the cooldown test = 10 ticks
COOLDOWN == 10

----------------------------------------------------------------------------
(* Python values. *)

None == <<>>

Some(v) == <<v>>

Val(o) == o[1]

Abs(n) == IF n < 0 THEN -n ELSE n

\* class Touch
Touch(id, x, y, major, minor, size, orientation, st) ==
    [id |-> id, x |-> x, y |-> y, major |-> major, minor |-> minor,
     size |-> size, orientation |-> orientation, state |-> st]

\* class GestureState, with the field values given to its constructor
GestureState(sx, sy, stime, fc, lgt) ==
    [start_x |-> sx, start_y |-> sy, start_time |-> stime,
     finger_count |-> fc, last_gesture_time |-> lgt]

\* GestureState(): every field at its default
FreshState == GestureState(None, None, None, 0, 0)

\* sum(t.x for t in touches)
RECURSIVE SumX(_)
SumX(ts) == IF ts = <<>> THEN 0 ELSE Head(ts).x + SumX(Tail(ts))

\* sum(t.y for t in touches)
RECURSIVE SumY(_)
SumY(ts) == IF ts = <<>> THEN 0 ELSE Head(ts).y + SumY(Tail(ts))

----------------------------------------------------------------------------
(* Python's operators on non-negative integers. *)

\* a & b
RECURSIVE BitAnd(_, _)
BitAnd(a, b) ==
    IF a = 0 \/ b = 0 THEN 0
    ELSE (a % 2) * (b % 2) + 2 * BitAnd(a \div 2, b \div 2)

\* a | b
RECURSIVE BitOr(_, _)
BitOr(a, b) ==
    IF a = 0 THEN b
    ELSE IF b = 0 THEN a
    ELSE (IF a % 2 = 1 \/ b % 2 = 1 THEN 1 ELSE 0)
         + 2 * BitOr(a \div 2, b \div 2)

\* a << n
Shl(a, n) == a * 2^n

\* a >> n
Shr(a, n) == a \div 2^n

\* data[lo:hi], a slice of a sequence indexed from 0; it stops at the end of
\* data
Slice(d, lo, hi) ==
    IF lo >= Len(d) THEN <<>>
    ELSE SubSeq(d, lo + 1, IF hi < Len(d) THEN hi ELSE Len(d))

\* tdata[i], indexed from 0
At(d, i) == d[i + 1]

----------------------------------------------------------------------------
(* The report decoder. *)

\* parse_touch that takes byte 5 whole for the size
parse_touch_unmasked(d, offset) ==
    LET tdata == Slice(d, offset, offset + 8)
        x == BitOr(At(tdata, 0), Shl(BitAnd(At(tdata, 1), 15), 8))
        y == BitOr(At(tdata, 2), Shl(BitAnd(At(tdata, 1), 240), 4))
        major == At(tdata, 3)
        minor == At(tdata, 4)
        size == At(tdata, 5)
        id_lsb == BitAnd(Shr(At(tdata, 5), 6), 3)
        id_msb == BitAnd(At(tdata, 6), 3)
        touch_id == BitOr(id_lsb, Shl(id_msb, 2))
        orientation == BitAnd(Shr(At(tdata, 6), 2), 63)
        st == BitAnd(Shr(At(tdata, 7), 4), 15)
    IN Touch(touch_id, x, y, major, minor, size, orientation, st)

\* parse_touch(data, offset)
parse_touch(d, offset) ==
    LET tdata == Slice(d, offset, offset + 8)
        x == BitOr(At(tdata, 0), Shl(BitAnd(At(tdata, 1), 15), 8))
        y == BitOr(At(tdata, 2), Shl(BitAnd(At(tdata, 1), 240), 4))
        major == At(tdata, 3)
        minor == At(tdata, 4)
        size == BitAnd(At(tdata, 5), 63)
        id_lsb == BitAnd(Shr(At(tdata, 5), 6), 3)
        id_msb == BitAnd(At(tdata, 6), 3)
        touch_id == BitOr(id_lsb, Shl(id_msb, 2))
        orientation == BitAnd(Shr(At(tdata, 6), 2), 63)
        st == BitAnd(Shr(At(tdata, 7), 4), 15)
    IN Touch(touch_id, x, y, major, minor, size, orientation, st)

\* line 124: num_fingers = (len(data) - 14) // 8
num_fingers(d) == (Len(d) - 14) \div 8

\* is_active that looks at the state alone
is_active_state_only(touch) == touch.state > 0

\* line 130: touch.state > 0 or touch.size > 0
is_active(touch) == touch.state > 0 \/ touch.size > 0

\* parse_slots that puts each decoded touch in front of the list
RECURSIVE parse_slots_reversed(_, _, _, _)
parse_slots_reversed(d, i, n, acc) ==
    IF i >= n THEN acc
    ELSE
      LET offset == 14 + (i * 8) IN
      IF offset + 8 <= Len(d)
      THEN LET touch == parse_touch(d, offset) IN
           parse_slots_reversed(d, i + 1, n,
                                IF is_active(touch) THEN <<touch>> \o acc
                                ELSE acc)
      ELSE parse_slots_reversed(d, i + 1, n, acc)

\* lines 126-131: the loop over range(num_fingers), from index i on, with the
\* list built so far
RECURSIVE parse_slots(_, _, _, _)
parse_slots(d, i, n, acc) ==
    IF i >= n THEN acc
    ELSE
      LET offset == 14 + (i * 8) IN
      IF offset + 8 <= Len(d)
      THEN LET touch == parse_touch(d, offset) IN
           parse_slots(d, i + 1, n,
                       IF is_active(touch) THEN Append(acc, touch) ELSE acc)
      ELSE parse_slots(d, i + 1, n, acc)

\* parse_report(data)
parse_report(d) ==
    IF Len(d) < 14 THEN <<>>
    ELSE parse_slots(d, 0, num_fingers(d), <<>>)

----------------------------------------------------------------------------
(* detect_gesture(touches, state), with the time it reads as the parameter *)
(* t.  The value is the returned gesture, the GestureState the call leaves *)
(* behind and the return statement it left through.                        *)

Returned(ret, st, at) == [ret |-> ret, st |-> st, at |-> at]

\* in_cooldown with the swipe window in place of the cooldown's 0.5 s
in_cooldown_short(st, t) == t - st.last_gesture_time < SWIPE_TIME_MAX

\* line 168: now - state.last_gesture_time < 0.5
in_cooldown(st, t) == t - st.last_gesture_time < COOLDOWN

\* clear_touch that forgets the anchor fields
clear_touch_count_only(st) == [st EXCEPT !.finger_count = 0]

\* lines 172-175: the assignments of the empty-touch branch
clear_touch(st) ==
    [st EXCEPT !.start_x = None, !.start_y = None, !.start_time = None,
               !.finger_count = 0]

\* centroid_x with the mean rounded up
centroid_x_ceil(ts) == (SumX(ts) + Len(ts) - 1) \div Len(ts)

\* line 178: avg_x = sum(t.x for t in touches) // len(touches)
centroid_x(ts) == SumX(ts) \div Len(ts)

\* line 179: avg_y = sum(t.y for t in touches) // len(touches)
centroid_y(ts) == SumY(ts) \div Len(ts)

\* lines 182-185: the assignments of the branch that sets the first anchor
set_anchor(st, avg_x, avg_y, t, n) ==
    [st EXCEPT !.start_x = Some(avg_x), !.start_y = Some(avg_y),
               !.start_time = Some(t), !.finger_count = n]

\* is_swipe with the two thresholds included
is_swipe_inclusive(delta_x, delta_y, elapsed) ==
    /\ elapsed <= SWIPE_TIME_MAX
    /\ Abs(delta_x) >= SWIPE_THRESHOLD
    /\ Abs(delta_x) > Abs(delta_y) * 2

\* lines 192-193: the swipe test
is_swipe(delta_x, delta_y, elapsed) ==
    /\ elapsed < SWIPE_TIME_MAX
    /\ Abs(delta_x) > SWIPE_THRESHOLD
    /\ Abs(delta_x) > Abs(delta_y) * 2

\* direction with the two gestures exchanged
direction_flipped(delta_x) ==
    IF delta_x > 0 THEN "swipe_left" ELSE "swipe_right"

\* line 194: gesture = "swipe_right" if delta_x > 0 else "swipe_left"
direction(delta_x) == IF delta_x > 0 THEN "swipe_right" ELSE "swipe_left"

\* emit that clears start_x only
emit_clears_x_only(st, t) ==
    [st EXCEPT !.start_x = None, !.last_gesture_time = t]

\* emit that keeps the anchor
emit_keeps_anchor(st, t) == [st EXCEPT !.last_gesture_time = t]

\* emit without the assignment to last_gesture_time
emit_no_stamp(st, t) ==
    [st EXCEPT !.start_x = None, !.start_y = None, !.start_time = None]

\* lines 195-198: the assignments made when a gesture is returned
emit(st, t) ==
    [st EXCEPT !.start_x = None, !.start_y = None, !.start_time = None,
               !.last_gesture_time = t]

\* is_stale with the end of the swipe window included
is_stale_inclusive(elapsed) == elapsed >= SWIPE_TIME_MAX

\* line 201: elapsed > SWIPE_TIME_MAX
is_stale(elapsed) == elapsed > SWIPE_TIME_MAX

\* rebase that keeps the time of the old anchor
rebase_keeps_time(st, avg_x, avg_y, t) ==
    [st EXCEPT !.start_x = Some(avg_x), !.start_y = Some(avg_y)]

\* rebase that also restarts the cooldown
rebase_stamps(st, avg_x, avg_y, t) ==
    [st EXCEPT !.start_x = Some(avg_x), !.start_y = Some(avg_y),
               !.start_time = Some(t), !.last_gesture_time = t]

\* rebase for anchors set by two or more fingers only
rebase_two_fingers(st, avg_x, avg_y, t) ==
    IF st.finger_count >= 2
    THEN [st EXCEPT !.start_x = Some(avg_x), !.start_y = Some(avg_y),
                    !.start_time = Some(t)]
    ELSE st

\* lines 202-204: the assignments of the re-anchoring branch
rebase(st, avg_x, avg_y, t) ==
    [st EXCEPT !.start_x = Some(avg_x), !.start_y = Some(avg_y),
               !.start_time = Some(t)]

detect_gesture(ts, st, t) ==
    IF in_cooldown(st, t)
    THEN Returned("None", st, "cooldown")
    ELSE IF ts = <<>>
    THEN Returned("None", clear_touch(st), "no_touch")
    ELSE
      LET avg_x == centroid_x(ts)
          avg_y == centroid_y(ts)
      IN
      IF st.start_x = None
      THEN Returned("None", set_anchor(st, avg_x, avg_y, t, Len(ts)), "anchor")
      ELSE
        LET delta_x == avg_x - Val(st.start_x)
            delta_y == avg_y - Val(st.start_y)
            elapsed == t - Val(st.start_time)
        IN
        IF is_swipe(delta_x, delta_y, elapsed)
        THEN Returned(direction(delta_x), emit(st, t), "swipe")
        ELSE IF is_stale(elapsed)
        THEN Returned("None", rebase(st, avg_x, avg_y, t), "rebase")
        ELSE Returned("None", st, "wait")

----------------------------------------------------------------------------
(* Inputs of the detector. *)

\* An active touch at position <<x, y>>, as parse_report returns it.
TouchAt(p) == Touch(0, p[1], p[2], 0, 0, 1, 0, 4)

\* Surface positions of the calls with one touch.
Points == { <<0, 0>>, <<50, 0>>, <<260, 0>>, <<500, 1000>>, <<750, 1010>> }

\* The touch lists of the calls: no touch, one touch at each position, and
\* two lists of two touches, with centroids (250, 200) and (450, 225).
TouchLists ==
    { <<>> } \cup { <<TouchAt(p)>> : p \in Points } \cup
    { <<TouchAt(<<0, 0>>), TouchAt(<<500, 400>>)>>,
      <<TouchAt(<<0, 0>>), TouchAt(<<901, 451>>)>> }

\* Timestamps a call may see after a call at time t.
Times(t) == { u \in 0..MaxTime : t - MaxBack <= u /\ u <= t + MaxStep }

----------------------------------------------------------------------------
(* The detection stream. *)

ReportInit ==
    /\ data = <<>>
    /\ report = None
    /\ decoded = None

\* main before its first statement
HostInit ==
    /\ pc = "find"
    /\ handle = "unopened"
    /\ closes = 0
    /\ read_outcome = "none"
    /\ cycle = <<>>
    /\ stop = "none"

DetectorInit(st) ==
    /\ state = st
    /\ entry = st
    /\ touches = <<>>
    /\ now = 0
    /\ result = "None"
    /\ branch = "init"
    /\ prev_branch = "init"
    /\ after_empty = FALSE
    /\ emits = <<>>

\* main, line 231: state = GestureState()
Init ==
    /\ DetectorInit(FreshState)
    /\ ReportInit
    /\ HostInit

\* Positions of the anchor of a stream of SpecAny.
AnchorPoints == { <<0, 0>>, <<500, 1000>> }

\* A stream may also start from a GestureState the constructor builds with
\* the three anchor fields present or absent together.
AnyStates ==
    { GestureState(None, None, None, fc, lgt) :
          fc \in {0, 1}, lgt \in 0..MaxInitTime }
    \cup
    { GestureState(Some(p[1]), Some(p[2]), Some(0), 1, lgt) :
          p \in AnchorPoints, lgt \in 0..MaxInitTime }

InitAny ==
    /\ \E st \in AnyStates : DetectorInit(st)
    /\ ReportInit
    /\ HostInit

\* The times of the last two gestures, after one more at time t.
Emitted(es, t) == IF Len(es) < 2 THEN Append(es, t) ELSE <<es[2], t>>

\* The call gesture = detect_gesture(touches, state) with the touch list ts,
\* made at time t.
Detect(ts, t) ==
    LET r == detect_gesture(ts, state, t) IN
    /\ entry' = state
    /\ touches' = ts
    /\ now' = t
    /\ state' = r.st
    /\ result' = r.ret
    /\ prev_branch' = branch
    /\ after_empty' = (branch # "init" /\ touches = <<>>)
    /\ branch' = r.at
    /\ emits' = IF r.ret # "None" THEN Emitted(emits, t) ELSE emits

\* One call gesture = detect_gesture(touches, state) of the poll loop.
DetectGesture ==
    \E ts \in TouchLists, t \in Times(now) :
        /\ Detect(ts, t)
        /\ UNCHANGED <<report_vars, host_vars>>

----------------------------------------------------------------------------
(* The report decoder applied to buffers. *)

\* The 14 bytes of mouse movement data before the touch blocks.
Header == <<18, 0, 1, 255, 2, 254, 0, 0, 16, 64, 3, 0, 0, 129>>

\* 8-byte touch blocks: a touch with id 5, state 4 and size 1; a touch with
\* id 0, state 0 and size 3; a touch with id 0, state 1 and size 0; all-zero
\* padding; and a block with state 0 and size 0 whose other bits are set.
Blocks ==
    { <<44, 33, 232, 5, 4, 65, 9, 64>>,
      <<10, 0, 20, 0, 0, 3, 0, 0>>,
      <<7, 16, 1, 2, 3, 0, 4, 16>>,
      <<0, 0, 0, 0, 0, 0, 0, 0>>,
      <<200, 255, 7, 9, 9, 192, 255, 15>> }

\* The sequences of n blocks, one after the other.
RECURSIVE BlockRuns(_)
BlockRuns(n) ==
    IF n = 0 THEN { <<>> }
    ELSE { b \o r : b \in Blocks, r \in BlockRuns(n - 1) }

\* The buffers os.read returns: the first bytes of a header followed by
\* blocks, cut at any length up to MaxSlots blocks and a partial one.
Reports ==
    { Slice(Header \o r, 0, len) :
          r \in BlockRuns(MaxSlots + 1), len \in 0..(14 + 8 * MaxSlots + 7) }

\* parse_report is given any of the buffers.
InitReport ==
    /\ DetectorInit(FreshState)
    /\ data \in Reports
    /\ report = None
    /\ decoded = None
    /\ HostInit

\* The call touches = parse_report(data).
ParseReport ==
    /\ report = None
    /\ report' = Some(parse_report(data))
    /\ UNCHANGED <<data, decoded, detector_vars, host_vars>>

NextReport == ParseReport

SpecReport == InitReport /\ [][NextReport]_vars

----------------------------------------------------------------------------
(* The touch decoder applied to 8-byte blocks. *)

\* Byte values with every bit set in one of them and clear in another.
ByteValues == { 0, 90, 255 }

\* The blocks parse_touch is given: every block of the byte values above,
\* and every block with one byte of any value and the others all 0 or all
\* 255.
TouchBlocks ==
    { <<b[1], b[2], b[3], b[4], b[5], b[6], b[7], b[8]>> :
          b \in [1..8 -> ByteValues] }
    \cup
    { [i \in 1..8 |-> IF i = k THEN v ELSE rest] :
          k \in 1..8, v \in 0..255, rest \in {0, 255} }

InitTouch ==
    /\ DetectorInit(FreshState)
    /\ data \in TouchBlocks
    /\ report = None
    /\ decoded = None
    /\ HostInit

\* The call parse_touch(data, offset), at offset 0 of the block.
ParseTouch ==
    /\ decoded = None
    /\ decoded' = Some(parse_touch(data, 0))
    /\ UNCHANGED <<data, report, detector_vars, host_vars>>

NextTouch == ParseTouch

SpecTouch == InitTouch /\ [][NextTouch]_vars

\* ---------------------------------------------------------------------------
\* The host loop: main.  One action per statement of lines 209-261; the
\* KeyboardInterrupt of the user may arrive at any statement inside the try.

\* The touch block of one finger (size 1, state 4, id 0) at (0, 0) and at
\* (260, 0).
BlockAtOrigin == <<0, 0, 0, 0, 0, 1, 0, 64>>

BlockAtRight == <<4, 1, 0, 0, 0, 1, 0, 64>>

\* The non-empty buffers os.read(fd, 64) returns: one shorter than the header,
\* a bare header, and a header followed by one touch block.
HostReports ==
    { <<1, 2, 3>>, Header, Header \o BlockAtOrigin, Header \o BlockAtRight }

\* The key main sends for a gesture.
key_for_swapped(gesture) == IF gesture = "swipe_left" THEN "Left" ELSE "Right"

key_for(gesture) == IF gesture = "swipe_left" THEN "Right" ELSE "Left"

\* The confirmation main prints after the key was sent.
message_for(gesture) == IF gesture = "swipe_left" THEN "Forward" ELSE "Back"

\* The statements of the while loop.
LoopStatements == { "read", "parse", "detect", "dispatch", "confirm" }

\* device = find_hidraw_device(): a device path, or None and sys.exit(1).
FindDevice ==
    /\ pc = "find"
    /\ \E found \in BOOLEAN : pc' = IF found THEN "open" ELSE "exited"
    /\ UNCHANGED <<handle, closes, read_outcome, cycle, stop, report_vars,
                   detector_vars>>

\* fd = os.open(device, os.O_RDONLY) and state = GestureState().
OpenDevice ==
    /\ pc = "open"
    /\ handle' = "open"
    /\ state' = FreshState
    /\ pc' = "read"
    /\ UNCHANGED <<closes, read_outcome, cycle, stop, report_vars, entry,
                   touches, now, result, branch, prev_branch, after_empty,
                   emits>>

\* os.open raises PermissionError: sys.exit(1) before the try.
OpenDenied ==
    /\ pc = "open"
    /\ pc' = "exited"
    /\ UNCHANGED <<handle, closes, read_outcome, cycle, stop, report_vars,
                   detector_vars>>

\* data = os.read(fd, 64) returns a non-empty buffer.
ReadData ==
    /\ pc = "read"
    /\ \E d \in HostReports : data' = d
    /\ read_outcome' = "data"
    /\ cycle' = <<>>
    /\ pc' = "parse"
    /\ UNCHANGED <<handle, closes, stop, report, decoded, detector_vars>>

\* The same read when an empty buffer ends the loop instead of skipping it.
ReadEmpty_breaks ==
    /\ pc = "read"
    /\ data' = <<>>
    /\ read_outcome' = "empty"
    /\ cycle' = <<>>
    /\ pc' = "finally"
    /\ UNCHANGED <<handle, closes, stop, report, decoded, detector_vars>>

\* data = os.read(fd, 64) returns no bytes: if not data: continue.
ReadEmpty ==
    /\ pc = "read"
    /\ data' = <<>>
    /\ read_outcome' = "empty"
    /\ cycle' = <<>>
    /\ pc' = "read"
    /\ UNCHANGED <<handle, closes, stop, report, decoded, detector_vars>>

\* os.read raises OSError: continue; data keeps its value.
ReadError ==
    /\ pc = "read"
    /\ read_outcome' = "error"
    /\ cycle' = <<>>
    /\ pc' = "read"
    /\ UNCHANGED <<handle, closes, stop, report_vars, detector_vars>>

\* touches = parse_report(data)
HostParse ==
    /\ pc = "parse"
    /\ report' = Some(parse_report(data))
    /\ cycle' = Append(cycle, <<"parse_report">>)
    /\ pc' = "detect"
    /\ UNCHANGED <<handle, closes, read_outcome, stop, data, decoded,
                   detector_vars>>

\* gesture = detect_gesture(touches, state), and the if / elif on it.
HostDetect ==
    /\ pc = "detect"
    /\ \E t \in Times(now) : Detect(Val(report), t)
    /\ cycle' = Append(cycle, <<"detect_gesture", result'>>)
    /\ pc' = IF result' = "None" THEN "read" ELSE "dispatch"
    /\ UNCHANGED <<handle, closes, read_outcome, stop, report_vars>>

\* send_key('alt', key) returns True.
SendKeySent ==
    /\ pc = "dispatch"
    /\ cycle' = Append(cycle, <<"send_key", "alt", key_for(result), "True">>)
    /\ pc' = "confirm"
    /\ UNCHANGED <<handle, closes, read_outcome, stop, report_vars,
                   detector_vars>>

\* The same call when send_key lets the exception out.
SendKeyFailed_raises ==
    /\ pc = "dispatch"
    /\ cycle' = Append(cycle, <<"send_key", "alt", key_for(result), "False">>)
    /\ stop' = "error"
    /\ pc' = "finally"
    /\ UNCHANGED <<handle, closes, read_outcome, report_vars, detector_vars>>

\* send_key('alt', key) catches an exception of the key tool and returns
\* False.
SendKeyFailed ==
    /\ pc = "dispatch"
    /\ cycle' = Append(cycle, <<"send_key", "alt", key_for(result), "False">>)
    /\ pc' = "read"
    /\ UNCHANGED <<handle, closes, read_outcome, stop, report_vars,
                   detector_vars>>

\* print("→ Forward") or print("← Back")
Confirm ==
    /\ pc = "confirm"
    /\ cycle' = Append(cycle, <<"print", message_for(result)>>)
    /\ pc' = "read"
    /\ UNCHANGED <<handle, closes, read_outcome, stop, report_vars,
                   detector_vars>>

\* The print raises (standard output is gone): the exception leaves the loop
\* through the finally clause.
ConfirmRaises ==
    /\ pc = "confirm"
    /\ stop' = "error"
    /\ pc' = "finally"
    /\ UNCHANGED <<handle, closes, read_outcome, cycle, report_vars,
                   detector_vars>>

\* The same interrupt when no finally clause closes the handle.
Interrupt_no_finally ==
    /\ pc \in LoopStatements
    /\ stop' = "interrupt"
    /\ pc' = "exited"
    /\ UNCHANGED <<handle, closes, read_outcome, cycle, report_vars,
                   detector_vars>>

\* KeyboardInterrupt at a statement of the loop: except KeyboardInterrupt.
Interrupt ==
    /\ pc \in LoopStatements
    /\ stop' = "interrupt"
    /\ pc' = "handler"
    /\ UNCHANGED <<handle, closes, read_outcome, cycle, report_vars,
                   detector_vars>>

\* print("\nStopped."), whether it returns or raises.
Stopped ==
    /\ pc = "handler"
    /\ pc' = "finally"
    /\ UNCHANGED <<handle, closes, read_outcome, cycle, stop, report_vars,
                   detector_vars>>

\* finally: os.close(fd)
CloseDevice ==
    /\ pc = "finally"
    /\ handle' = "closed"
    /\ closes' = closes + 1
    /\ pc' = "exited"
    /\ UNCHANGED <<read_outcome, cycle, stop, report_vars, detector_vars>>

NextHost ==
    \/ FindDevice
    \/ OpenDevice
    \/ OpenDenied
    \/ ReadData
    \/ ReadEmpty
    \/ ReadError
    \/ HostParse
    \/ HostDetect
    \/ SendKeySent
    \/ SendKeyFailed
    \/ Confirm
    \/ ConfirmRaises
    \/ Interrupt
    \/ Stopped
    \/ CloseDevice

SpecHost == Init /\ [][NextHost]_vars

Next == DetectGesture

Spec == Init /\ [][Next]_vars

SpecAny == InitAny /\ [][Next]_vars

\* The stream when time.time() never goes back.
DetectGestureForward ==
    /\ DetectGesture
    /\ now' >= now

NextForward == DetectGestureForward

SpecForward == Init /\ [][NextForward]_vars

----------------------------------------------------------------------------
(* Terms of the properties, read from the last call: its arguments touches *)
(* and now, the GestureState entry it was given, the GestureState state it *)
(* left and the value result it returned.                                  *)

\* a call of detect_gesture has been made
Called == branch # "init"

\* the call was made less than 0.5 s (10 ticks) after lastGestureTime
InsideCooldown == now - entry.last_gesture_time < 10

\* an anchor was set when the call was made
AnchorSet == entry.start_x # None

\* the three anchor fields of st are absent
NoAnchor(st) ==
    st.start_x = None /\ st.start_y = None /\ st.start_time = None

\* the anchor of st is (x, y, t)
AnchorIs(st, x, y, t) ==
    st.start_x = Some(x) /\ st.start_y = Some(y) /\ st.start_time = Some(t)

\* avgX and avgY: the floor of the mean of the touches' coordinates
MeanX == SumX(touches) \div Len(touches)

MeanY == SumY(touches) \div Len(touches)

\* dx, dy and elapsed of the call, defined when touches is not empty and an
\* anchor is set
Dx == MeanX - Val(entry.start_x)

Dy == MeanY - Val(entry.start_y)

Elapsed == now - Val(entry.start_time)

\* the swipe test: elapsed < 0.4 s (8 ticks), |dx| > 200 and |dx| > 2 * |dy|
SwipeTest == Elapsed < 8 /\ Abs(Dx) > 200 /\ Abs(Dx) > 2 * Abs(Dy)

\* the call was outside the cooldown, with touches and with an anchor set
Measured == Called /\ ~InsideCooldown /\ touches # <<>> /\ AnchorSet

----------------------------------------------------------------------------
(* C1.  Cooldown gate: a detect_gesture call made at a time now with       *)
(* now - lastGestureTime < 0.5 s returns no gesture and leaves every field *)
(* of GestureState unchanged, whatever the GestureState and the touch list *)
(* are.  It holds of every call, hence of any number of consecutive calls  *)
(* inside the window.                                                      *)
C1_CooldownGate ==
    (Called /\ InsideCooldown) => (result = "None" /\ state = entry)

\* a call inside the cooldown that was given touches while an anchor was set,
\* right after another call inside the cooldown
C1_Witness ==
    /\ Called /\ InsideCooldown
    /\ touches # <<>> /\ AnchorSet
    /\ prev_branch = "cooldown"

(* C2.  Any two calls that return a gesture are at least 0.5 s (10 ticks)  *)
(* apart: no gesture is returned less than 0.5 s after the gesture before  *)
(* it.  It holds of timestamps in any order, so of non-decreasing ones.    *)
C2_GesturesApart ==
    Len(emits) = 2 => emits[2] - emits[1] >= 10

\* two gestures exactly 0.5 s apart
C2_Witness ==
    Len(emits) = 2 /\ emits[2] - emits[1] = 10 /\ result # "None"

(* C3.  Swipe classification: a call returns a gesture if and only if it   *)
(* is outside the cooldown, the touch list is not empty, an anchor is set  *)
(* and elapsed < 0.4 s, |dx| > 200 and |dx| > 2 * |dy| all hold; the       *)
(* gesture is swipe_right when dx > 0 and swipe_left otherwise.  So the    *)
(* call that sets the anchor returns no gesture, and neither does a call   *)
(* at elapsed = 0.4 s or at |dx| = 200.                                    *)
C3_SwipeClassification ==
    Called =>
        /\ result # "None" <=> (Measured /\ SwipeTest)
        /\ (Measured /\ SwipeTest) =>
               result = (IF Dx > 0 THEN "swipe_right" ELSE "swipe_left")
        /\ (Measured /\ (Elapsed = 8 \/ Abs(Dx) = 200)) => result = "None"
        /\ (~InsideCooldown /\ touches # <<>> /\ ~AnchorSet) => result = "None"

\* a swipe to the left
C3_Witness ==
    Measured /\ SwipeTest /\ Dx < 0 /\ result = "swipe_left"

(* C4.  Whenever detect_gesture returns a gesture, after the call the      *)
(* anchor is absent (x, y and time) and lastGestureTime is the now of the  *)
(* call; no other call changes lastGestureTime.                            *)
C4_GestureEffect ==
    Called =>
        /\ result # "None" =>
               (NoAnchor(state) /\ state.last_gesture_time = now)
        /\ result = "None" =>
               state.last_gesture_time = entry.last_gesture_time

\* a gesture that moved lastGestureTime, and was returned to a stream that
\* had an anchor with every field set
C4_Witness ==
    /\ result # "None"
    /\ ~NoAnchor(entry)
    /\ state.last_gesture_time # entry.last_gesture_time

\* a gesture had been returned before the last call
EmittedBefore == IF result # "None" THEN Len(emits) = 2 ELSE Len(emits) >= 1

\* the time of the last gesture returned before the last call
PrevEmit == IF result # "None" THEN emits[1] ELSE emits[Len(emits)]

\* the centroid of the call's touches is (x, y)
CentroidIs(x, y) == touches # <<>> /\ MeanX = x /\ MeanY = y

(* C5, as claimed.  In a stream where no gesture has been returned yet     *)
(* (lastGestureTime at its initial value 0) and the anchor is              *)
(* (500, 1000, t = 0.0), a call with centroid (750, 1010) at t = 0.1 s     *)
(* (tick 2) returns swipe_right.                                           *)
C5_Original ==
    ( /\ Called /\ ~EmittedBefore
      /\ entry.last_gesture_time = 0
      /\ AnchorIs(entry, 500, 1000, 0)
      /\ CentroidIs(750, 1010)
      /\ now = 2 ) => result = "swipe_right"

(* C5, amended.  In a stream where no gesture has been returned yet        *)
(* (lastGestureTime at its initial value 0) and the anchor is              *)
(* (500, 1000, t = T), a call with centroid (750, 1010) at T + 0.1 s       *)
(* returns swipe_right when T + 0.1 s >= 0.5 s, and returns no gesture     *)
(* when T + 0.1 s < 0.5 s, inside the cooldown that lastGestureTime = 0    *)
(* opens (the case T = 0.0); and a call less than 0.5 s after a returned   *)
(* gesture returns no gesture.                                             *)
C5_ConcreteSwipe ==
    /\ ( /\ Called /\ ~EmittedBefore
         /\ entry.last_gesture_time = 0
         /\ AnchorSet
         /\ AnchorIs(entry, 500, 1000, now - 2)
         /\ CentroidIs(750, 1010) )
       => result = (IF now >= 10 THEN "swipe_right" ELSE "None")
    /\ (Called /\ EmittedBefore /\ now - PrevEmit < 10) => result = "None"

\* the swipe of the concrete case, returned at T + 0.1 s
C5_Witness ==
    /\ Called /\ ~EmittedBefore
    /\ entry.last_gesture_time = 0
    /\ AnchorIs(entry, 500, 1000, now - 2)
    /\ CentroidIs(750, 1010)
    /\ result = "swipe_right"

(* C6.  Anchor establishment: a call outside the cooldown with a non-empty *)
(* touch list and no anchor set returns no gesture and sets                *)
(* anchor = (avgX, avgY, now) and fingerCount = the number of touches,     *)
(* where avgX and avgY are the floor of the mean of the touches' x and y   *)
(* (a * n <= sum < (a + 1) * n); lastGestureTime is unchanged.             *)
C6_AnchorEstablishment ==
    (Called /\ ~InsideCooldown /\ touches # <<>> /\ ~AnchorSet) =>
        /\ result = "None"
        /\ state.start_x # None /\ state.start_y # None
        /\ LET n == Len(touches)
               ax == Val(state.start_x)
               ay == Val(state.start_y)
           IN /\ ax * n <= SumX(touches) /\ SumX(touches) < (ax + 1) * n
              /\ ay * n <= SumY(touches) /\ SumY(touches) < (ay + 1) * n
        /\ state.start_time = Some(now)
        /\ state.finger_count = Len(touches)
        /\ state.last_gesture_time = entry.last_gesture_time

\* an anchor set from two touches whose mean x is not a whole number
C6_Witness ==
    /\ Called /\ ~InsideCooldown /\ ~AnchorSet
    /\ Len(touches) = 2 /\ SumX(touches) % 2 = 1
    /\ state.start_x = Some(MeanX) /\ state.finger_count = 2

(* C7.  Within-window sample that does not qualify: a call outside the     *)
(* cooldown with touches and an anchor set, with elapsed <= 0.4 s and a    *)
(* motion that fails the swipe test, returns no gesture and leaves         *)
(* GestureState unchanged (no re-anchor); so does the diagonal case        *)
(* dx = 250, dy = 200 at elapsed = 0.1 s.                                  *)
C7_WaitNoMutation ==
    /\ (Measured /\ Elapsed <= 8 /\ ~SwipeTest) =>
           (result = "None" /\ state = entry)
    /\ (Measured /\ Dx = 250 /\ Dy = 200 /\ Elapsed = 2) =>
           (result = "None" /\ state = entry)

\* the diagonal case
C7_Witness ==
    /\ Measured /\ Dx = 250 /\ Dy = 200 /\ Elapsed = 2
    /\ result = "None" /\ state = entry

(* C8.  Stale re-anchoring: a call outside the cooldown with touches and   *)
(* an anchor older than 0.4 s returns no gesture and replaces the anchor   *)
(* by (avgX, avgY, now), the other fields unchanged.  Concretely, from the *)
(* anchor (0, 0, 0) the centroid (50, 0) at t = 0.5 s re-anchors to        *)
(* (50, 0, 0.5), and from that anchor the centroid (260, 0) at t = 0.55 s  *)
(* returns swipe_right.                                                    *)
C8_StaleReanchor ==
    /\ (Measured /\ Elapsed > 8) =>
           /\ result = "None"
           /\ state = [entry EXCEPT !.start_x = Some(MeanX),
                                    !.start_y = Some(MeanY),
                                    !.start_time = Some(now)]
    /\ (Measured /\ AnchorIs(entry, 0, 0, 0) /\ CentroidIs(50, 0) /\ now = 10)
           => (result = "None" /\ AnchorIs(state, 50, 0, 10))
    /\ (Measured /\ AnchorIs(entry, 50, 0, 10) /\ CentroidIs(260, 0)
                 /\ now = 11)
           => result = "swipe_right"

\* the swipe of the concrete case, measured from an anchor that the call
\* before it set by re-anchoring
C8_Witness ==
    /\ Measured /\ prev_branch = "rebase"
    /\ AnchorIs(entry, 50, 0, 10) /\ CentroidIs(260, 0) /\ now = 11
    /\ result = "swipe_right"

(* C9, as claimed.  From any anchor state, a call with an empty touch list *)
(* returns no gesture and leaves the anchor absent and fingerCount = 0,    *)
(* and the following call with a non-empty touch list sets its own         *)
(* centroid and time as a new anchor and returns no gesture.               *)
C9_Original ==
    /\ (Called /\ touches = <<>>) =>
           (result = "None" /\ NoAnchor(state) /\ state.finger_count = 0)
    /\ (Called /\ after_empty /\ touches # <<>>) =>
           (result = "None" /\ AnchorIs(state, MeanX, MeanY, now))

(* C9, amended.  A call outside the cooldown with an empty touch list      *)
(* returns no gesture and leaves the anchor absent and fingerCount = 0,    *)
(* and the following call with a non-empty touch list, when it is outside  *)
(* the cooldown too, sets its own centroid and time as a new anchor and    *)
(* returns no gesture.                                                     *)
C9_EmptyTouchReset ==
    /\ (Called /\ ~InsideCooldown /\ touches = <<>>) =>
           /\ result = "None" /\ branch = "no_touch"
           /\ NoAnchor(state) /\ state.finger_count = 0
    /\ (Called /\ after_empty /\ prev_branch = "no_touch"
               /\ ~InsideCooldown /\ touches # <<>>) =>
           /\ result = "None"
           /\ AnchorIs(state, MeanX, MeanY, now)

\* a new anchor set by the call that follows an empty call which had cleared
\* an anchor's finger count
C9_Witness ==
    /\ Called /\ after_empty /\ prev_branch = "no_touch"
    /\ ~InsideCooldown /\ touches # <<>>
    /\ entry.finger_count = 0 /\ NoAnchor(entry)
    /\ AnchorIs(state, MeanX, MeanY, now) /\ result = "None"

----------------------------------------------------------------------------
(* Terms of the properties of the report decoder, read from the buffer     *)
(* data and the list parse_report returned for it.                         *)

\* the number of complete 8-byte blocks after the 14-byte header
FullBlocks == (Len(data) - 14) \div 8

\* the block at offset 14 + 8i is active: its state (the high four bits of
\* byte 7) or its size (the low six bits of byte 5) is not zero
BlockActive(i) ==
    \/ data[14 + 8 * i + 8] \div 16 > 0
    \/ data[14 + 8 * i + 6] % 64 > 0

\* the indices of the active complete blocks
ActiveBlocks == { i \in 0..(FullBlocks - 1) : BlockActive(i) }

\* the j-th active block, in ascending offset order
NthActive(j) ==
    CHOOSE i \in ActiveBlocks :
        Cardinality({ m \in ActiveBlocks : m < i }) = j - 1

(* C10.  Report decoding by length: for a buffer of length < 14            *)
(* parse_report returns an empty list; for a buffer of length L >= 14 it   *)
(* considers exactly the floor((L - 14) / 8) blocks at offsets 14 + 8i,    *)
(* ignores a trailing partial block, and returns the decoded active blocks *)
(* in ascending offset order, blocks with equal ids included; so a buffer  *)
(* of length 14 + 8k whose k blocks are all active gives k samples.        *)
C10_ReportByLength ==
    report # None =>
        LET r == Val(report) IN
        /\ Len(data) < 14 => r = <<>>
        /\ Len(data) >= 14 =>
               /\ Len(r) = Cardinality(ActiveBlocks)
               /\ \A j \in 1..Len(r) :
                      r[j] = parse_touch(data, 14 + 8 * NthActive(j))
               /\ ( /\ Len(data) = 14 + 8 * FullBlocks
                    /\ ActiveBlocks = 0..(FullBlocks - 1) )
                  => Len(r) = FullBlocks

\* a buffer of two complete blocks and three more bytes, decoded to two
\* different samples with the same id
C10_Witness ==
    /\ report # None
    /\ Len(data) = 14 + 8 * 2 + 3
    /\ Len(Val(report)) = 2
    /\ Val(report)[1].id = Val(report)[2].id
    /\ Val(report)[1] # Val(report)[2]

(* C11.  Filter invariant: every sample parse_report returns has           *)
(* state > 0 or size > 0, every complete block whose decoded state or size *)
(* is not zero is in the result, and a block with state = 0 and size = 0   *)
(* (all-zero padding, say) is not.                                         *)
C11_FilterInvariant ==
    report # None =>
        LET r == Val(report) IN
        /\ \A j \in 1..Len(r) : r[j].state > 0 \/ r[j].size > 0
        /\ \A i \in 0..(FullBlocks - 1) :
               LET touch == parse_touch(data, 14 + 8 * i) IN
               /\ (touch.state > 0 \/ touch.size > 0) =>
                      \E j \in 1..Len(r) : r[j] = touch
               /\ (touch.state = 0 /\ touch.size = 0) =>
                      \A j \in 1..Len(r) : r[j] # touch

\* two complete blocks: one with state 0 and size 0 whose other bits are
\* set, left out, and one with state 0 and size 3, returned
C11_Witness ==
    /\ report # None
    /\ FullBlocks = 2
    /\ data[15] = 200 /\ ~BlockActive(0)
    /\ Val(report) = <<parse_touch(data, 22)>>
    /\ Val(report)[1].state = 0 /\ Val(report)[1].size = 3

(* C12.  Decoder totality and ranges: for every 8-byte block parse_touch   *)
(* returns a Touch, with id in 0..15, x and y in 0..4095, major and minor  *)
(* in 0..255, size and orientation in 0..63 and state in 0..15, each the   *)
(* bit field the format names: x = byte0 + 256 * (low four bits of byte1), *)
(* y = byte2 + 256 * (high four bits of byte1), size = low six bits of     *)
(* byte5, id = high two bits of byte5 + 4 * (low two bits of byte6),       *)
(* orientation = high six bits of byte6, state = high four bits of byte7.  *)
C12_DecoderRanges ==
    decoded # None =>
        LET t == Val(decoded) IN
        /\ t.id \in 0..15
        /\ t.x \in 0..4095 /\ t.y \in 0..4095
        /\ t.major \in 0..255 /\ t.minor \in 0..255
        /\ t.size \in 0..63 /\ t.orientation \in 0..63
        /\ t.state \in 0..15
        /\ t.x = data[1] + 256 * (data[2] % 16)
        /\ t.y = data[3] + 256 * (data[2] \div 16)
        /\ t.major = data[4] /\ t.minor = data[5]
        /\ t.size = data[6] % 64
        /\ t.id = (data[6] \div 64) + 4 * (data[7] % 4)
        /\ t.orientation = data[7] \div 4
        /\ t.state = data[8] \div 16

\* the block of eight bytes 255, decoded to the largest value of every field
C12_Witness ==
    /\ data = <<255, 255, 255, 255, 255, 255, 255, 255>>
    /\ decoded = Some(Touch(15, 4095, 4095, 255, 255, 63, 63, 15))

\* ---------------------------------------------------------------------------
\* The host loop

\* the read of this cycle returned no bytes or failed with a read error
ReadSkipped == read_outcome \in { "empty", "error" }

\* the dispatcher reported failure in this cycle
DispatchFailed ==
    \E i \in 1..Len(cycle) :
        /\ cycle[i][1] = "send_key"
        /\ cycle[i][4] = "False"

\* a confirmation message was printed in this cycle
Confirmed == \E i \in 1..Len(cycle) : cycle[i][1] = "print"

\* C13: a read that returns zero bytes or fails with a read error does not
\* terminate the poll loop and does not reach the decoder or the detector:
\* the GestureState (and everything the decoder and the detector produce) is
\* unchanged by that cycle, nothing was called in it, and unless the user
\* interrupts, the loop is back at the next read.
C13_ReadSkipped ==
    [][ReadSkipped' =>
            /\ state' = state
            /\ touches' = touches
            /\ report' = report
            /\ result' = result
            /\ cycle' = <<>>
            /\ pc' \notin { "parse", "detect", "dispatch", "confirm" }
            /\ stop' # "error"
            /\ stop' = "none" => (pc' = "read" /\ handle' = "open")]_vars

\* an os.read failed after an empty read, while an anchor was pending, and the
\* loop is at the next read
C13_Witness ==
    /\ read_outcome = "error"
    /\ data = <<>>
    /\ pc = "read"
    /\ state.start_x # None

\* C14: a failed key dispatch is contained: it does not end the loop (only
\* the user's interrupt does), no confirmation message is printed, the
\* GestureState is exactly what the detector call of the cycle left (anchor
\* cleared, lastGestureTime = the time of the gesture, so the cooldown applies)
\* and the loop is back at the next read.
C14_DispatchFailureContained ==
    DispatchFailed =>
        /\ ~Confirmed
        /\ stop # "error"
        /\ stop = "none" => (pc = "read" /\ handle = "open")
        /\ state = detect_gesture(touches, entry, now).st
        /\ state.last_gesture_time = now
        /\ NoAnchor(state)

\* the key for a right swipe could not be sent and the loop is at the next
\* read
C14_Witness ==
    /\ DispatchFailed
    /\ result = "swipe_right"
    /\ pc = "read"
    /\ stop = "none"

\* C15: once the handle is open, it stays open and unclosed while the loop
\* runs (and while the interrupt handler and the finally clause are reached),
\* and every exit of the program after the open has closed it exactly once.
C15_HandleClosedOnce ==
    /\ pc \in LoopStatements \cup { "handler", "finally" } =>
           (handle = "open" /\ closes = 0)
    /\ pc = "exited" => handle # "open"
    /\ handle = "closed" => (closes = 1 /\ pc = "exited")
    /\ handle = "unopened" => (closes = 0 /\ stop = "none")

\* the user interrupted a cycle whose buffer was already read, and the handle
\* was closed once
C15_Witness ==
    /\ pc = "exited"
    /\ stop = "interrupt"
    /\ read_outcome = "data"
    /\ Len(cycle) = 1
    /\ handle = "closed"
    /\ closes = 1

\* C16: the calls of one cycle are parse_report, then detect_gesture on the
\* decoded touches, then at most one send_key, which is made exactly when the
\* detector returned a gesture, with alt+Right for swipe_left and alt+Left for
\* swipe_right; the next read begins only after all of them.
C16_Pipeline ==
    LET n == Len(cycle) IN
    /\ n <= 4
    /\ n >= 1 => cycle[1] = <<"parse_report">>
    /\ n >= 2 =>
           /\ report = Some(parse_report(data))
           /\ touches = Val(report)
           /\ cycle[2] = <<"detect_gesture",
                           detect_gesture(touches, entry, now).ret>>
    /\ n >= 3 =>
           /\ cycle[2][2] # "None"
           /\ cycle[3][1] = "send_key"
           /\ cycle[3][2] = "alt"
           /\ cycle[2][2] = "swipe_left" => cycle[3][3] = "Right"
           /\ cycle[2][2] = "swipe_right" => cycle[3][3] = "Left"
    /\ n >= 4 => (cycle[3][4] = "True" /\ cycle[4][1] = "print")
    /\ (pc = "read" /\ read_outcome = "data") =>
           /\ n >= 2
           /\ cycle[2][2] # "None" => n >= 3

\* a left swipe was detected, alt+Right was sent and confirmed, and the loop
\* is at the next read
C16_Witness ==
    /\ pc = "read"
    /\ cycle = << <<"parse_report">>, <<"detect_gesture", "swipe_left">>,
                  <<"send_key", "alt", "Right", "True">>,
                  <<"print", "Forward">> >>

\* ---------------------------------------------------------------------------
\* The anchor, fingerCount and the cooldown

\* the finger counts a GestureState may hold
FingerCounts == 0..3

\* the call set an anchor, by establishing it or by re-basing
SetAnAnchor == branch \in { "anchor", "rebase" }

(* C17, as claimed.  In every reachable GestureState fingerCount is the    *)
(* finger count observed when the current anchor was set: a call that sets *)
(* an anchor (re-basing included) leaves fingerCount = the number of its   *)
(* touches, and whenever the anchor is absent fingerCount is 0.            *)
C17_FingerCount ==
    /\ SetAnAnchor => state.finger_count = Len(touches)
    /\ NoAnchor(state) => state.finger_count = 0

(* C18.  fingerCount never influences detection: the last call, repeated   *)
(* on a GestureState that differs from the one it was given only in        *)
(* fingerCount, returns the same result and leaves the same anchor and     *)
(* lastGestureTime (so two such streams stay equal up to fingerCount call  *)
(* after call).                                                            *)
C18_FingerCountUnused ==
    Called =>
        \A fc \in FingerCounts :
            LET r == detect_gesture(touches,
                                    [entry EXCEPT !.finger_count = fc], now)
            IN  /\ r.ret = result
                /\ r.st.start_x = state.start_x
                /\ r.st.start_y = state.start_y
                /\ r.st.start_time = state.start_time
                /\ r.st.last_gesture_time = state.last_gesture_time

\* a stale anchor set by one finger was re-based by a call with two fingers
C18_Witness ==
    /\ branch = "rebase"
    /\ entry.finger_count = 1
    /\ Len(touches) = 2
    /\ state.start_time = Some(now)

(* C19.  From a fresh GestureState the three anchor fields are set or      *)
(* absent together, in the state every call is given and in the state it   *)
(* leaves, so a call that finds start_x set reads start_y and start_time   *)
(* that are set too.                                                       *)
C19_AnchorFieldsTogether ==
    /\ (state.start_x = None) = (state.start_y = None)
    /\ (state.start_y = None) = (state.start_time = None)
    /\ (entry.start_x = None) = (entry.start_y = None)
    /\ (entry.start_y = None) = (entry.start_time = None)

\* an anchor was established after an earlier gesture had cleared one
C19_Witness ==
    /\ branch = "anchor"
    /\ emits # <<>>
    /\ NoAnchor(entry)
    /\ ~NoAnchor(state)

(* C20.  Under non-decreasing timestamps, once a gesture has been emitted: *)
(* in every state less than 0.5 s (10 ticks) after it the anchor is        *)
(* absent; an anchor that is present was set 0.5 s or more after the last  *)
(* gesture; and a call with touches at or after 0.5 s that finds no anchor *)
(* returns no gesture and sets the anchor to its own centroid and time.    *)
C20_CooldownKeepsNoAnchor ==
    emits # <<>> =>
        /\ now - state.last_gesture_time < 10 => NoAnchor(state)
        /\ state.start_time # None =>
               Val(state.start_time) - state.last_gesture_time >= 10
        /\ (EmittedBefore /\ touches # <<>> /\ ~InsideCooldown
                /\ NoAnchor(entry)) =>
               (result = "None" /\ AnchorIs(state, MeanX, MeanY, now))

\* the first call with touches after the cooldown of a gesture, made after
\* calls with touches during the cooldown: it only sets the anchor
C20_Witness ==
    /\ emits # <<>>
    /\ prev_branch = "cooldown"
    /\ branch = "anchor"
    /\ now - state.last_gesture_time = 10
    /\ AnchorIs(state, MeanX, MeanY, now)

=============================================================================
